---- MODULE Spec2Model ----
(***************************************************************************)
(* Model of makehuman/lib/getpath.py on a POSIX platform (sys.platform     *)
(* "linux" or "darwin"; os.path is posixpath).  The Windows branches need  *)
(* ntpath and winreg and are outside the model.                            *)
(*                                                                         *)
(* A path string is a sequence of symbols.  A symbol is "/", "." or a name *)
(* chunk ("data", "2", "obj", ...) standing for a fixed non-empty run of   *)
(* characters holding neither "/" nor ".": "/w/data2/a.obj" is             *)
(* <<"/","w","/","data","2","/","a",".","obj">>.  Python's None, True and  *)
(* False are the values None, True and False below, which are no path      *)
(* strings.                                                                *)
(***************************************************************************)
EXTENDS Integers, Sequences, FiniteSets, TLC

Sep == "/"
Dot == "."
None == <<"<None>">>
True == <<"<True>">>
False == <<"<False>">>

curdir == <<Dot>>
pardir == <<Dot, Dot>>

\* ------------------------------------------------------------------------
\* str methods used by the module

RECURSIVE splitAcc(_, _, _)
splitAcc(s, cur, acc) ==
    IF s = <<>> THEN Append(acc, cur)
    ELSE IF Head(s) = Sep THEN splitAcc(Tail(s), <<>>, Append(acc, cur))
    ELSE splitAcc(Tail(s), Append(cur, Head(s)), acc)

\* s.split('/')
split(s) == splitAcc(s, <<>>, <<>>)

\* '/'.join(segs)
RECURSIVE sepJoin(_)
sepJoin(segs) ==
    IF segs = <<>> THEN <<>>
    ELSE IF Len(segs) = 1 THEN segs[1]
    ELSE segs[1] \o <<Sep>> \o sepJoin(Tail(segs))

\* s.startswith(p)
startswith(s, p) == Len(s) >= Len(p) /\ SubSeq(s, 1, Len(p)) = p

\* s.endswith(p)
endswith(s, p) == Len(s) >= Len(p) /\ SubSeq(s, Len(s) - Len(p) + 1, Len(s)) = p

\* [x for x in segs if x]
RECURSIVE nonEmpty(_)
nonEmpty(segs) ==
    IF segs = <<>> THEN <<>>
    ELSE IF Head(segs) = <<>> THEN nonEmpty(Tail(segs))
    ELSE <<Head(segs)>> \o nonEmpty(Tail(segs))

\* ------------------------------------------------------------------------
\* os.path (posixpath) string functions

isabs(path) == startswith(path, <<Sep>>)

\* os.path.join(a, b)
join(a, b) ==
    IF isabs(b) THEN b
    ELSE IF a = <<>> \/ endswith(a, <<Sep>>) THEN a \o b
    ELSE a \o <<Sep>> \o b

RECURSIVE normComps(_, _, _)
normComps(comps, new_comps, initial_slashes) ==
    IF comps = <<>> THEN new_comps
    ELSE IF Head(comps) = <<>> \/ Head(comps) = curdir
    THEN normComps(Tail(comps), new_comps, initial_slashes)
    ELSE IF Head(comps) # pardir
            \/ (initial_slashes = 0 /\ new_comps = <<>>)
            \/ (new_comps # <<>> /\ new_comps[Len(new_comps)] = pardir)
    THEN normComps(Tail(comps), Append(new_comps, Head(comps)), initial_slashes)
    ELSE IF new_comps # <<>>
    THEN normComps(Tail(comps), SubSeq(new_comps, 1, Len(new_comps) - 1), initial_slashes)
    ELSE normComps(Tail(comps), new_comps, initial_slashes)

\* the number of slashes normpath keeps in front: "//" is kept, "///" is not
initialSlashes(path) ==
    IF ~startswith(path, <<Sep>>) THEN 0
    ELSE IF startswith(path, <<Sep, Sep>>) /\ ~startswith(path, <<Sep, Sep, Sep>>) THEN 2
    ELSE 1

\* path or '.'
orCurdir(path) == IF path = <<>> THEN curdir ELSE path

normFrom(path, initial_slashes) ==
    orCurdir([i \in 1..initial_slashes |-> Sep]
                 \o sepJoin(normComps(split(path), <<>>, initial_slashes)))

\* os.path.normpath(path)
normpath(path) == IF path = <<>> THEN curdir ELSE normFrom(path, initialSlashes(path))

\* ------------------------------------------------------------------------
\* The file system the process runs on.  A location is the sequence of the
\* segments of its symlink-free absolute path (<<>> is "/").

Root == <<>>

W == <<"w">>
DATA == <<"data">>
DATA2 == <<"data", "2">>
H == <<"h">>
E == <<"e">>
L == <<"l">>
S == <<"s">>
DOCS == <<"Documents">>
MKH == <<"makehuman">>
MKHMAC == <<"MakeHuman">>
VER == <<"v1py3">>
A_OBJ == <<"a", Dot, "obj">>
A_OBJ_UP == <<"a", Dot, "OBJ">>
A_MHCLO == <<"a", Dot, "mhclo">>
B_OBJ == <<"b", Dot, "obj">>
SHARED == <<"shared">>
LIB == <<"lib">>
M == <<"m">>
G == <<"g">>
K == <<"k">>

\* os.getcwd(): the installation directory
Cwd == <<W>>

UserDir == <<H, MKH, VER>>

Dirs ==
    { Root, <<W>>, <<W, DATA>>, <<W, DATA2>>, <<W, DATA, DATA>>,
      <<H>>, <<H, MKH>>, UserDir, UserDir \o <<DATA>>,
      <<H, DOCS>>, <<E>>, <<E, LIB>> }

Files ==
    { <<W, DATA, A_OBJ>>, <<W, DATA, A_MHCLO>>,
      <<W, DATA2, A_OBJ_UP>>, <<W, DATA2, A_MHCLO>>, <<W, DATA2, B_OBJ>>,
      <<W, DATA, DATA, B_OBJ>>,
      <<W, G>>, UserDir \o <<K>>, <<E, M>> }

\* symbolic links: /l -> /w/data, /w/s -> data2, and in the user's data
\* folder shared -> /e/lib
Links ==
    { [at |-> <<L>>, to |-> <<Sep>> \o W \o <<Sep>> \o DATA],
      [at |-> <<W, S>>, to |-> DATA2],
      [at |-> UserDir \o <<DATA, SHARED>>, to |-> <<Sep>> \o E \o <<Sep>> \o LIB] }

IsLink(loc) == \E l \in Links : l.at = loc
Readlink(loc) == (CHOOSE l \in Links : l.at = loc).to

Missing == << <<Sep>> >>

Parent(loc) == IF loc = Root THEN Root ELSE SubSeq(loc, 1, Len(loc) - 1)

\* the string of a location
locPath(loc) == <<Sep>> \o sepJoin(loc)

\* Name lookup as the kernel does it (stat): every component is looked up in
\* a directory, symlinks are followed, a missing name fails.
RECURSIVE walk(_, _)
walk(cur, rest) ==
    IF rest = <<>> THEN cur
    ELSE IF cur \notin Dirs THEN Missing
    ELSE LET name == Head(rest)
             newloc == Append(cur, name)
         IN  IF name = <<>> \/ name = curdir THEN walk(cur, Tail(rest))
             ELSE IF name = pardir THEN walk(Parent(cur), Tail(rest))
             ELSE IF IsLink(newloc)
             THEN LET to == Readlink(newloc)
                      r == walk(IF isabs(to) THEN Root ELSE cur, split(to))
                  IN  IF r = Missing THEN Missing ELSE walk(r, Tail(rest))
             ELSE IF newloc \in Dirs \cup Files THEN walk(newloc, Tail(rest))
             ELSE Missing

stat(path) ==
    IF path = <<>> THEN Missing
    ELSE walk(IF isabs(path) THEN Root ELSE Cwd, split(path))

\* os.path.isfile(path), os.path.isdir(path)
isfile(path) == stat(path) \in Files
isdir(path) == stat(path) \in Dirs

\* os.path.realpath(path), not strict: symlinks are resolved, names that do
\* not exist are kept.  The links of the model form no cycle.
RECURSIVE joinrealpath(_, _)
joinrealpath(cur, rest) ==
    IF rest = <<>> THEN cur
    ELSE LET name == Head(rest)
             newloc == Append(cur, name)
         IN  IF name = <<>> \/ name = curdir THEN joinrealpath(cur, Tail(rest))
             ELSE IF name = pardir THEN joinrealpath(Parent(cur), Tail(rest))
             ELSE IF IsLink(newloc)
             THEN LET to == Readlink(newloc)
                  IN  joinrealpath(joinrealpath(IF isabs(to) THEN Root ELSE cur, split(to)),
                                   Tail(rest))
             ELSE joinrealpath(newloc, Tail(rest))

realpath(path) == locPath(joinrealpath(IF isabs(path) THEN Root ELSE Cwd, split(path)))

\* os.path.abspath(path)
abspath(path) == normpath(IF isabs(path) THEN path ELSE join(locPath(Cwd), path))

\* len(os.path.commonprefix([a, b])) of two segment lists
RECURSIVE commonLen(_, _)
commonLen(a, b) ==
    IF a = <<>> \/ b = <<>> \/ Head(a) # Head(b) THEN 0
    ELSE 1 + commonLen(Tail(a), Tail(b))

\* [pardir] * (len(start_list) - i) + path_list[i:]
relList(start_list, path_list, i) ==
    [k \in 1..(Len(start_list) - i) |-> pardir] \o SubSeq(path_list, i + 1, Len(path_list))

relFrom(start_list, path_list) ==
    orCurdir(sepJoin(relList(start_list, path_list, commonLen(start_list, path_list))))

\* os.path.relpath(path, start)
relpath(path, start) ==
    relFrom(nonEmpty(split(abspath(start))), nonEmpty(split(abspath(path))))

RECURSIVE lastDot(_, _)
lastDot(s, i) ==
    IF i = 0 THEN 0
    ELSE IF s[i] = Dot THEN i
    ELSE IF s[i] = Sep THEN 0
    ELSE lastDot(s, i - 1)

RECURSIVE lastSep(_, _)
lastSep(s, i) == IF i = 0 THEN 0 ELSE IF s[i] = Sep THEN i ELSE lastSep(s, i - 1)

\* the extension starts at the last dot of the last component, unless only
\* dots lead up to it
splitAt(p, sepIndex, dotIndex) ==
    IF dotIndex > sepIndex /\ ~(\A j \in (sepIndex + 1)..dotIndex : p[j] = Dot)
    THEN <<SubSeq(p, 1, dotIndex - 1), SubSeq(p, dotIndex, Len(p))>>
    ELSE <<p, <<>>>>

\* os.path.splitext(p): <<root, ext>>
splitext(p) == splitAt(p, lastSep(p, Len(p)), lastDot(p, Len(p)))

\* ------------------------------------------------------------------------
\* State

VARIABLES
    platform,    \* sys.platform: "linux" or "darwin"
    xdgDocs,     \* XDG_PATHS.get('DOCUMENTS', '')
    homeEnv,     \* the environment's HOME, which os.path.expanduser('~') reads
    environ,     \* os.environ.get("MH_HOME_LOCATION", '')
    home_path,   \* the module global __home_path
    defaults,    \* the default argument [getDataPath(), getSysDataPath()]
    op,          \* the call in progress: its function, "idle" between calls
    args,        \* its arguments, and the state it found
    ret,         \* what it returns
    yielded,     \* the paths a search has yielded
    raised       \* whether it ended in an exception

vars == <<platform, xdgDocs, homeEnv, environ, home_path, defaults, op, args, ret,
          yielded, raised>>

\* A Python argument that is a str or a list of str
Str(s) == <<"str", s>>
List(l) == <<"list", l>>

\* if not isinstance(v, list): v = [v]
asList(v) == IF v[1] = "list" THEN v[2] ELSE <<v[2]>>

\* ------------------------------------------------------------------------
\* getpath.py

Backslash == "\\"

\* s.replace("\\", "/")
replaceBackslash(s) == [i \in 1..Len(s) |-> IF s[i] = Backslash THEN Sep ELSE s[i]]

\* Every path of the model is a str: the bytes branch is not modelled.
pathToUnicode(path) == path

formatPath(path) ==
    IF path = None THEN None
    ELSE pathToUnicode(replaceBackslash(normpath(path)))

canonicalPath(path) == formatPath(realpath(path))

RECURSIVE rstripSep(_)
rstripSep(s) ==
    IF s # <<>> /\ s[Len(s)] = Sep THEN rstripSep(SubSeq(s, 1, Len(s) - 1)) ELSE s

orRoot(s) == IF s = <<>> THEN <<Sep>> ELSE s

\* os.path.expanduser('~'): HOME without its trailing slashes
expanduserHome == orRoot(rstripSep(homeEnv))

\* the lookup of the platform, when the cache is empty
lookupHome ==
    IF platform = "linux"
    THEN IF isdir(xdgDocs) THEN xdgDocs ELSE pathToUnicode(expanduserHome)
    ELSE expanduserHome

\* __home_path = v; return __home_path
cacheAndReturn(v) == [ret |-> v, home |-> v]

\* a getHomePath that looks the home folder up again whatever the cache holds
homeFromLookup(cached) == cacheAndReturn(lookupHome)

homeFrom(cached) ==
    IF cached # None THEN cacheAndReturn(cached) ELSE cacheAndReturn(lookupHome)

\* a getHomePath that asks the cache before the environment
getHomePathCacheFirst(cache) ==
    IF cache # None THEN cacheAndReturn(cache)
    ELSE homeFrom(IF isdir(environ) THEN formatPath(environ) ELSE cache)

\* getHomePath() called with the cache holding `cache`:
\* [ret |-> what it returns, home |-> the cache after the call]
getHomePath(cache) ==
    homeFrom(IF isdir(environ) THEN formatPath(environ) ELSE cache)

appFolder(home) ==
    IF platform = "darwin" THEN join(join(home, DOCS), MKHMAC) ELSE join(home, MKH)

withSubPath(path, subPath) == IF subPath # <<>> THEN join(path, subPath) ELSE path

getPathIn(h, subPath) ==
    [ret |-> formatPath(withSubPath(join(appFolder(h.ret), VER), subPath)), home |-> h.home]

getPath(cache, subPath) == getPathIn(getHomePath(cache), subPath)

formatted(r) == [ret |-> formatPath(r.ret), home |-> r.home]

getDataPath(cache, subPath) ==
    formatted(getPath(cache, IF subPath # <<>> THEN join(DATA, subPath) ELSE DATA))

getSysPath(subPath) ==
    formatPath(IF subPath # <<>> THEN join(curdir, subPath) ELSE curdir)

getSysDataPath(subPath) ==
    formatPath(getSysPath(IF subPath # <<>> THEN join(DATA, subPath) ELSE DATA))

allnamesequal(name) == \A i \in 2..Len(name) : name[i] = name[1]

RECURSIVE takewhileEqual(_)
takewhileEqual(levels) ==
    IF levels = <<>> \/ ~allnamesequal(Head(levels)) THEN <<>>
    ELSE <<Head(levels)>> \o takewhileEqual(Tail(levels))

MinLen(seqs) == CHOOSE n \in { Len(seqs[i]) : i \in DOMAIN seqs } :
                    \A i \in DOMAIN seqs : n <= Len(seqs[i])

\* zip(*parts): one tuple per directory level, as many as the shortest has
zip(parts) == [k \in 1..MinLen(parts) |-> [i \in DOMAIN parts |-> parts[i][k]]]

firstOfEach(levels) == [k \in DOMAIN levels |-> levels[k][1]]

commonprefix(paths) ==
    sepJoin(firstOfEach(takewhileEqual(zip([i \in DOMAIN paths |-> split(paths[i])]))))

\* a comparison by character prefix
prefixIsByCharacter(subpath, path) == startswith(subpath, path)

\* commonprefix([subpath, path]) == path
prefixIs(subpath, path) == commonprefix(<<subpath, path>>) = path

isSubPath(subpath, path) == prefixIs(canonicalPath(subpath), canonicalPath(path))

isSamePath(path1, path2) == canonicalPath(path1) = canonicalPath(path2)

\* a loop that stops at the first match
RECURSIVE reltoFirst(_, _, _)
reltoFirst(path, relativeTo, relto) ==
    IF relativeTo = <<>> THEN relto
    ELSE IF isSubPath(path, Head(relativeTo)) THEN Head(relativeTo)
    ELSE reltoFirst(path, Tail(relativeTo), relto)

\* for p in relativeTo: if isSubPath(path, p): relto = p
RECURSIVE reltoLoop(_, _, _)
reltoLoop(path, relativeTo, relto) ==
    IF relativeTo = <<>> THEN relto
    ELSE reltoLoop(path, Tail(relativeTo),
                   IF isSubPath(path, Head(relativeTo)) THEN Head(relativeTo) ELSE relto)

\* a relative path taken without resolving symlinks
relativeFromUnresolved(path, relto, strict) ==
    IF relto = None
    THEN IF strict THEN None ELSE path
    ELSE formatPath(relpath(abspath(path), abspath(relto)))

relativeFrom(path, relto, strict) ==
    IF relto = None
    THEN IF strict THEN None ELSE path
    ELSE formatPath(relpath(abspath(realpath(path)), abspath(realpath(relto))))

getRelativePath(path, relativeTo, strict) ==
    relativeFrom(path, reltoLoop(path, asList(relativeTo), None), strict)

\* a loop that keeps the last match
RECURSIVE findLast(_, _)
findLast(relPath, searchPaths) ==
    IF searchPaths = <<>> THEN None
    ELSE IF findLast(relPath, Tail(searchPaths)) # None
    THEN findLast(relPath, Tail(searchPaths))
    ELSE IF isfile(join(Head(searchPaths), relPath))
    THEN formatPath(join(Head(searchPaths), relPath))
    ELSE None

\* for dataPath in searchPaths: ... return formatPath(path)
RECURSIVE findLoop(_, _)
findLoop(relPath, searchPaths) ==
    IF searchPaths = <<>> THEN None
    ELSE IF isfile(join(Head(searchPaths), relPath))
    THEN formatPath(join(Head(searchPaths), relPath))
    ELSE findLoop(relPath, Tail(searchPaths))

notFound(found, relPath, strict) ==
    IF found # None THEN found
    ELSE IF strict THEN None ELSE relPath

findFile(relPath, searchPaths, strict) ==
    notFound(findLoop(relPath, asList(searchPaths)), relPath, strict)

DataPrefix == DATA \o <<Sep>>

\* thoroughFindFile once searchPaths is the list that is searched
RECURSIVE thoroughSearch(_, _)
RECURSIVE thoroughFrom(_, _, _)
thoroughSearch(filename, searchPaths) ==
    thoroughFrom(findFile(filename, List(searchPaths), TRUE), filename, searchPaths)

thoroughFrom(path, filename, searchPaths) ==
    IF path # None /\ path # <<>> THEN canonicalPath(path)
    ELSE IF isfile(filename) THEN canonicalPath(filename)
    ELSE IF startswith(filename, DataPrefix)
            /\ isfile(thoroughSearch(SubSeq(filename, Len(DataPrefix) + 1, Len(filename)),
                                     searchPaths))
    THEN thoroughSearch(SubSeq(filename, Len(DataPrefix) + 1, Len(filename)), searchPaths)
    ELSE formatPath(filename)

\* searchPaths.extend([getDataPath(), getSysDataPath(), getPath(), getSysPath()])
extended(searchPaths, dataPath, userPath) ==
    searchPaths \o <<dataPath, getSysDataPath(<<>>), userPath, getSysPath(<<>>)>>

thoroughIn(d, u, filename, searchPaths) ==
    [ret |-> thoroughSearch(filename, extended(searchPaths, d.ret, u.ret)), home |-> u.home]

thoroughWith(d, filename, searchPaths) ==
    thoroughIn(d, getPath(d.home, <<>>), filename, searchPaths)

thoroughFindFile(cache, filename, searchPaths, searchDefaultPaths) ==
    IF searchDefaultPaths
    THEN thoroughWith(getDataPath(cache, <<>>), filename, asList(searchPaths))
    ELSE [ret |-> thoroughSearch(filename, asList(searchPaths)), home |-> cache]

withinJail(path, jailLimits) ==
    \E i \in DOMAIN jailLimits : isSubPath(path, jailLimits[i])

relativeOrJail(relPath, filepath, jailLimits) ==
    IF relPath # None /\ relPath # <<>> THEN relPath
    ELSE getRelativePath(filepath, List(jailLimits), FALSE)

\* a getJailedPath that does not ask whether the path is within the jail
jailedUnchecked(filepath, relativeTo, jailLimits) ==
    relativeOrJail(getRelativePath(filepath, relativeTo, TRUE), filepath, jailLimits)

\* getJailedPath once filepath = os.path.realpath(filepath)
jailed(filepath, relativeTo, jailLimits) ==
    IF withinJail(filepath, jailLimits)
    THEN relativeOrJail(getRelativePath(filepath, relativeTo, TRUE), filepath, jailLimits)
    ELSE None

getJailedPath(filepath, relativeTo, jailLimits) ==
    jailed(realpath(filepath), relativeTo, jailLimits)

\* ------------------------------------------------------------------------
\* search()

\* str.lower() on the symbols of the model
lowerSym(c) == IF c = "OBJ" THEN "obj" ELSE IF c = "MHCLO" THEN "mhclo" ELSE c
lower(s) == [i \in 1..Len(s) |-> lowerSym(s[i])]

\* [e[1:].lower() if e.startswith('.') else e.lower() for e in extensions]
normExtensions(extensions) ==
    [i \in DOMAIN extensions |->
        IF startswith(extensions[i], <<Dot>>) THEN lower(Tail(extensions[i]))
        ELSE lower(extensions[i])]

\* list.index(x): 0 stands for the ValueError of a value that is not in the list
index(list, x) ==
    IF \E i \in DOMAIN list : list[i] = x
    THEN CHOOSE i \in DOMAIN list : list[i] = x /\ \A j \in 1..(i - 1) : list[j] # x
    ELSE 0

\* the names in a directory
children(loc) ==
    { n[Len(n)] : n \in { x \in Dirs \cup Files \cup { l.at : l \in Links } :
                              x # Root /\ Parent(x) = loc } }

Perms(set) ==
    { p \in [1..Cardinality(set) -> set] : \A i, j \in DOMAIN p : p[i] = p[j] => i = j }

\* The directories search() is pointed at in the model, and every order in
\* which the system may list each of them.
ScanDirs == { <<W, DATA>>, <<W, DATA, DATA>>, <<W, DATA2>> }
ListOrders == { o \in [ScanDirs -> UNION { Perms(children(d)) : d \in ScanDirs }] :
                    \A d \in ScanDirs : o[d] \in Perms(children(d)) }

\* the names among `names` that are directories (keepDirs) or are not
RECURSIVE selectSeq(_, _, _)
selectSeq(names, top, keepDirs) ==
    IF names = <<>> THEN <<>>
    ELSE (IF isdir(join(top, Head(names))) = keepDirs THEN <<Head(names)>> ELSE <<>>)
             \o selectSeq(Tail(names), top, keepDirs)

joinEach(top, names) == [i \in DOMAIN names |-> join(top, names[i])]

\* os.walk(top), top down, symlinks to directories not descended into: the
\* paths os.path.join(root, f) of the files, in the order of the walk
RECURSIVE walkTree(_, _)
RECURSIVE walkDirs(_, _, _)
walkTree(top, order) ==
    IF ~isdir(top) THEN <<>>
    ELSE joinEach(top, selectSeq(order[stat(top)], top, FALSE))
             \o walkDirs(top, selectSeq(order[stat(top)], top, TRUE), order)

walkDirs(top, dirs, order) ==
    IF dirs = <<>> THEN <<>>
    ELSE (IF IsLink(Append(stat(top), Head(dirs))) THEN <<>>
          ELSE walkTree(join(top, Head(dirs)), order))
             \o walkDirs(top, Tail(dirs), order)

\* for f in os.listdir(path): f = os.path.join(path, f); if os.path.isfile(f)
listFiles(path, order) ==
    IF ~isdir(path) THEN <<>>
    ELSE joinEach(path, selectSeq(order[stat(path)], path, FALSE))

\* os.path.splitext(f)[1][1:]
extOf(f) == Tail(splitext(f)[2])

\* the files search() comes upon whose lower-cased extension is listed
RECURSIVE matching(_, _)
matching(found, extensions) ==
    IF found = <<>> THEN <<>>
    ELSE (IF \E i \in DOMAIN extensions : extensions[i] = lower(extOf(Head(found)))
          THEN <<Head(found)>> ELSE <<>>) \o matching(Tail(found), extensions)

RECURSIVE scan(_, _, _)
scan(paths, recursive, order) ==
    IF paths = <<>> THEN <<>>
    ELSE (IF recursive THEN walkTree(Head(paths), order) ELSE listFiles(Head(paths), order))
             \o scan(Tail(paths), recursive, order)

keyIndex(discovered, basep) == index([i \in DOMAIN discovered |-> discovered[i][1]], basep)

\* _aggregate_files_mutexExt for one file; discovered is the dict, a sequence
\* of <<basep, ext>> in insertion order; raised: extensions.index() failed
aggregateOne(basep, ext, at, extensions, discovered) ==
    IF at = 0 THEN [raised |-> FALSE, discovered |-> Append(discovered, <<basep, ext>>)]
    ELSE IF index(extensions, ext) = 0 \/ index(extensions, discovered[at][2]) = 0
    THEN [raised |-> TRUE, discovered |-> discovered]
    ELSE IF index(extensions, ext) < index(extensions, discovered[at][2])
    THEN [raised |-> FALSE, discovered |-> [discovered EXCEPT ![at] = <<basep, ext>>]]
    ELSE [raised |-> FALSE, discovered |-> discovered]

RECURSIVE aggregate(_, _, _)
RECURSIVE aggregateNext(_, _, _)
aggregate(filepaths, extensions, discovered) ==
    IF filepaths = <<>> THEN [raised |-> FALSE, discovered |-> discovered]
    ELSE aggregateNext(aggregateOne(splitext(Head(filepaths))[1], extOf(Head(filepaths)),
                                    keyIndex(discovered, splitext(Head(filepaths))[1]),
                                    extensions, discovered),
                       Tail(filepaths), extensions)

aggregateNext(one, filepaths, extensions) ==
    IF one.raised THEN one ELSE aggregate(filepaths, extensions, one.discovered)

\* "%s.%s" % (p, e) for p, e in discovered.items()
reconstructed(discovered) ==
    [i \in DOMAIN discovered |-> pathToUnicode(discovered[i][1] \o <<Dot>> \o discovered[i][2])]

yieldAll(hits) == [i \in DOMAIN hits |-> pathToUnicode(hits[i])]

yieldKept(agg) ==
    IF agg.raised THEN [out |-> <<>>, raised |-> TRUE]
    ELSE [out |-> reconstructed(agg.discovered), raised |-> FALSE]

searchIn(hits, exts, mutexExtensions) ==
    IF mutexExtensions THEN yieldKept(aggregate(hits, exts, <<>>))
    ELSE [out |-> yieldAll(hits), raised |-> FALSE]

searchWith(paths, exts, recursive, mutexExtensions, order) ==
    searchIn(matching(scan(paths, recursive, order), exts), exts, mutexExtensions)

\* list(search(...)): [out |-> the paths yielded, raised |-> whether it ended
\* in the ValueError of extensions.index()]
search(paths, extensions, recursive, mutexExtensions, order) ==
    searchWith(asList(paths), normExtensions(asList(extensions)), recursive,
               mutexExtensions, order)

\* ------------------------------------------------------------------------
\* The arguments the calls are made with

MaxDepth == 2

\* the path string "/" \o a \o "/" \o b ...
P(segs) == locPath(segs)

Segs == { W, DATA, DATA2, L, pardir, A_MHCLO }

RECURSIVE SegSeqs(_)
SegSeqs(n) ==
    IF n = 0 THEN { <<>> }
    ELSE LET shorter == SegSeqs(n - 1)
         IN  shorter \cup { Append(x, g) : x \in shorter, g \in Segs }

\* relative and absolute paths of up to MaxDepth segments
Paths == { sepJoin(x) : x \in SegSeqs(MaxDepth) } \cup { P(x) : x \in SegSeqs(MaxDepth) }

\* directories, named in several ways
BaseDirs ==
    { P(<<>>), P(<<W>>), P(<<W, DATA>>), P(<<W, DATA2>>), P(<<L>>), P(<<H>>),
      DATA, DATA2, S, curdir, <<>>,
      P(<<W, DATA>>) \o <<Sep>>, P(<<L, pardir, DATA2>>), <<Sep>> \o P(<<W, DATA>>) }

ListDirs == { P(<<W>>), P(<<W, DATA>>), P(<<L>>), DATA2 }

\* the bases a single-entry list names
SingleDirs ==
    { P(<<>>), P(<<W>>), P(<<W, DATA>>), P(<<L>>), DATA, S, curdir,
      P(<<W, DATA>>) \o <<Sep>>, P(<<L, pardir, DATA2>>) }

BaseLists ==
    { List(<<>>), Str(P(<<L>>)), Str(DATA2) }
        \cup { List(<<a>>) : a \in SingleDirs }
        \cup { List(<<a, b>>) : a, b \in ListDirs }

\* relative paths asked of findFile and thoroughFindFile
RelFiles ==
    { A_MHCLO, A_OBJ, B_OBJ, G, K, DATA \o <<Sep>> \o A_OBJ, S \o <<Sep>> \o B_OBJ,
      A_MHCLO \o <<Sep>>, DATA \o <<Sep, Sep>> \o A_OBJ, pardir \o <<Sep>> \o G,
      P(<<W, G>>), P(<<L, A_OBJ>>), <<>>, SHARED \o <<Sep>> \o pardir \o <<Sep>> \o M }

SearchLists ==
    { List(<<>>), List(<<DATA>>), List(<<DATA, DATA2>>), List(<<DATA2, DATA>>),
      List(<<P(<<H>>), S, P(<<L>>)>>), List(<<curdir>>), List(<<P(<<W>>) \o <<Sep>>, DATA>>),
      Str(P(<<L>>)), Str(DATA2) }

ThoroughNames == RelFiles \cup { DataPrefix \o r : r \in RelFiles }

ThoroughLists == { List(<<>>), List(<<DATA2>>), List(<<P(<<L>>), DATA2>>), Str(S) }

ScanArgs ==
    { Str(DATA), Str(P(<<L>>)), Str(S), Str(curdir \o <<Sep>> \o DATA2 \o <<Sep>>),
      List(<<DATA, DATA2>>), List(<<DATA2, G>>), List(<<>>) }

ExtArgs ==
    { List(<<<<"obj">>, <<"mhclo">>>>), List(<<<<"mhclo">>, <<"obj">>>>),
      List(<<<<Dot, "OBJ">>, <<"mhclo">>>>), Str(<<"obj">>), List(<<<<"mhclo">>>>) }

JailRelTo ==
    { Str(P(<<W, DATA>>)), Str(P(<<W>>)), Str(P(<<L>>)), Str(S), Str(P(<<H>>)),
      List(<<DATA2, P(<<W>>)>>) }

JailLists ==
    { <<>>, <<P(<<W, DATA>>)>>, <<DATA, DATA2>>, <<P(<<W>>), P(<<L>>)>>, <<P(<<>>)>> }

EnvValues == { <<>>, P(<<E>>), P(<<E>>) \o <<Sep>>, P(<<H, DOCS>>), P(<<W, G>>) }

SubPaths == { <<>>, <<"models">>, pardir, DATA \o <<Sep>> }

\* ------------------------------------------------------------------------
\* The calls

\* a call of a function that goes through getHomePath: r is [ret, home]
CallHome(f, a, r) ==
    /\ op' = f
    /\ args' = a
    /\ ret' = r.ret
    /\ home_path' = r.home
    /\ UNCHANGED <<platform, xdgDocs, homeEnv, environ, defaults, yielded, raised>>

Call(f, a, r, home) ==
    /\ op' = f
    /\ args' = a
    /\ ret' = r
    /\ home_path' = home
    /\ yielded' = <<>>
    /\ raised' = FALSE
    /\ UNCHANGED <<platform, xdgDocs, homeEnv, environ, defaults>>

\* list(search(...)): r is [out, raised]
CallSearch(a, r) ==
    /\ op' = "search"
    /\ args' = a
    /\ ret' = None
    /\ yielded' = r.out
    /\ raised' = r.raised
    /\ UNCHANGED <<platform, xdgDocs, homeEnv, environ, home_path, defaults>>

\* The rest of the import, after the configuration file was read: the three
\* default arguments [getDataPath(), getSysDataPath()] are evaluated.
Import ==
    /\ op = "start"
    /\ op' = "import"
    /\ args' = [cache |-> home_path, env |-> environ]
    /\ ret' = getDataPath(home_path, <<>>).ret
    /\ home_path' = getDataPath(home_path, <<>>).home
    /\ defaults' = <<ret', getSysDataPath(<<>>)>>
    /\ UNCHANGED <<platform, xdgDocs, homeEnv, environ, yielded, raised>>

\* The caller has taken the result; the next call can be made.
Return ==
    /\ op \notin { "start", "idle" }
    /\ Call("idle", <<>>, None, home_path)

\* The process sets or unsets MH_HOME_LOCATION.
SetEnv ==
    /\ op = "idle"
    /\ \E v \in EnvValues :
        /\ v # environ
        /\ environ' = v
        /\ op' = "setenv"
        /\ args' = [cache |-> home_path, env |-> v]
        /\ ret' = None
    /\ UNCHANGED <<platform, xdgDocs, homeEnv, home_path, defaults, yielded, raised>>

GetHomePath ==
    /\ op = "idle"
    /\ CallHome("getHomePath", [cache |-> home_path, env |-> environ],
                getHomePath(home_path))

GetPath ==
    /\ op = "idle"
    /\ \E subPath \in SubPaths :
        CallHome("getPath", [cache |-> home_path, env |-> environ, subPath |-> subPath],
                 getPath(home_path, subPath))

GetDataPath ==
    /\ op = "idle"
    /\ \E subPath \in SubPaths :
        CallHome("getDataPath", [cache |-> home_path, env |-> environ, subPath |-> subPath],
                 getDataPath(home_path, subPath))

GetSysPath ==
    /\ op = "idle"
    /\ \E subPath \in SubPaths :
        Call("getSysPath", [subPath |-> subPath], getSysPath(subPath), home_path)

GetSysDataPath ==
    /\ op = "idle"
    /\ \E subPath \in SubPaths :
        Call("getSysDataPath", [subPath |-> subPath], getSysDataPath(subPath), home_path)

IsSubPath ==
    /\ op = "idle"
    /\ \E subpath \in Paths :
        \E path \in BaseDirs \cup { subpath } :
            Call("isSubPath", [subpath |-> subpath, path |-> path],
                 IF isSubPath(subpath, path) THEN True ELSE False, home_path)

\* relativeTo given, or left to its default
GetRelativePath ==
    /\ op = "idle"
    /\ \E path \in Paths, strict \in BOOLEAN :
        \E relativeTo \in BaseLists \cup { List(defaults) } :
            Call("getRelativePath",
                 [path |-> path, relativeTo |-> relativeTo, strict |-> strict],
                 getRelativePath(path, relativeTo, strict), home_path)

FindFile ==
    /\ op = "idle"
    /\ \E relPath \in RelFiles, strict \in BOOLEAN :
        \E searchPaths \in SearchLists \cup { List(defaults) } :
            Call("findFile",
                 [relPath |-> relPath, searchPaths |-> searchPaths, strict |-> strict,
                  of |-> None],
                 findFile(relPath, searchPaths, strict), home_path)

\* findFile(getRelativePath(f, b), b): the caller hands the relative path it
\* just got back to findFile, with the same search paths
FindFileBack ==
    /\ op = "getRelativePath"
    /\ ret # None
    /\ Call("findFile",
            [relPath |-> ret, searchPaths |-> args.relativeTo, strict |-> args.strict,
             of |-> args.path],
            findFile(ret, args.relativeTo, args.strict), home_path)

ThoroughFindFile ==
    /\ op = "idle"
    /\ \E filename \in ThoroughNames, searchDefaultPaths \in BOOLEAN :
        \E searchPaths \in ThoroughLists :
            CallHome("thoroughFindFile",
                     [filename |-> filename, searchPaths |-> searchPaths,
                      searchDefaultPaths |-> searchDefaultPaths],
                     thoroughFindFile(home_path, filename, searchPaths, searchDefaultPaths))

Search ==
    /\ op = "idle"
    /\ \E paths \in ScanArgs, extensions \in ExtArgs :
        \E recursive \in BOOLEAN, mutexExtensions \in BOOLEAN, order \in ListOrders :
            CallSearch([paths |-> paths, extensions |-> extensions, recursive |-> recursive,
                        mutexExtensions |-> mutexExtensions],
                       search(paths, extensions, recursive, mutexExtensions, order))

GetJailedPath ==
    /\ op = "idle"
    /\ \E filepath \in Paths, relativeTo \in JailRelTo :
        \E jailLimits \in JailLists \cup { defaults } :
            Call("getJailedPath",
                 [filepath |-> filepath, relativeTo |-> relativeTo, jailLimits |-> jailLimits],
                 getJailedPath(filepath, relativeTo, jailLimits), home_path)

\* ------------------------------------------------------------------------
\* The path functions, called in a process that was started on Linux with no
\* configuration file, no XDG documents folder and no MH_HOME_LOCATION

Init ==
    /\ platform = "linux"
    /\ xdgDocs = <<>>
    /\ homeEnv = P(<<H>>)
    /\ environ = <<>>
    /\ home_path = getHomePath(None).home
    /\ defaults = <<getDataPath(home_path, <<>>).ret, getSysDataPath(<<>>)>>
    /\ op = "idle"
    /\ args = <<>>
    /\ ret = None
    /\ yielded = <<>>
    /\ raised = FALSE

Next ==
    \/ IsSubPath
    \/ GetRelativePath
    \/ FindFile
    \/ FindFileBack
    \/ ThoroughFindFile
    \/ Search
    \/ GetJailedPath
    \/ Return

Spec == Init /\ [][Next]_vars

\* ------------------------------------------------------------------------
\* The home path, from the reading of the configuration file on

ConfigPaths == { <<>>, P(<<E>>), P(<<H, DOCS, pardir>>) \o <<Sep>>, P(<<W, G>>) }

HomeInit ==
    /\ platform \in { "linux", "darwin" }
    /\ xdgDocs \in { <<>>, P(<<H, DOCS>>), P(<<H, DOCS>>) \o <<Sep>> }
    /\ homeEnv \in { P(<<H>>), P(<<H>>) \o <<Sep>> }
    /\ environ \in EnvValues
    /\ \E configPath \in ConfigPaths :
        home_path = IF isdir(configPath) THEN replaceBackslash(normpath(configPath))
                    ELSE None
    /\ defaults = <<>>
    /\ op = "start"
    /\ args = <<>>
    /\ ret = None
    /\ yielded = <<>>
    /\ raised = FALSE

HomeNext ==
    \/ Import
    \/ SetEnv
    \/ GetHomePath
    \/ GetPath
    \/ GetDataPath
    \/ GetSysPath
    \/ GetSysDataPath
    \/ Return

HomeSpec == HomeInit /\ [][HomeNext]_vars

\* ------------------------------------------------------------------------
\* Properties

Range(seq) == { seq[i] : i \in DOMAIN seq }

\* the entries of a list of directories that path is a sub-path of
Under(path, bases) == { i \in DOMAIN bases : isSubPath(path, bases[i]) }

\* rel is relative, does not ascend, and leads from directory base to path
LeadsFrom(base, rel, path) ==
    /\ ~isabs(rel)
    /\ \A i \in DOMAIN split(rel) : split(rel)[i] # pardir
    /\ normpath(join(canonicalPath(base), rel)) = canonicalPath(path)

\* C1: getJailedPath returns None when the resolved filepath is a sub-path of
\* no jailLimits root; otherwise a relative path that never ascends, leading
\* to the file from relativeTo when the file lies under relativeTo and from a
\* jailLimits root that holds it otherwise.
C1_JailedPath ==
    op = "getJailedPath" =>
        LET real == realpath(args.filepath)
            relTo == asList(args.relativeTo)
            jail == args.jailLimits
        IN  IF Under(real, jail) = {} THEN ret = None
            ELSE /\ ret # None
                 /\ IF Under(real, relTo) # {}
                    THEN \E i \in Under(real, relTo) : LeadsFrom(relTo[i], ret, real)
                    ELSE \E i \in Under(real, jail) : LeadsFrom(jail[i], ret, real)

\* a file reached through a symlink, inside the jail and not under relativeTo
C1_Witness ==
    /\ op = "getJailedPath"
    /\ ret # None
    /\ ret # curdir
    /\ realpath(args.filepath) # args.filepath
    /\ Under(realpath(args.filepath), asList(args.relativeTo)) = {}

\* the directory components of a path's canonical form
Components(d) == nonEmpty(split(canonicalPath(d)))

LeadingRun(a, b) == Len(a) <= Len(b) /\ SubSeq(b, 1, Len(a)) = a

\* C2: isSubPath(d, d) is True for every d; isSubPath(d1, d2) is False
\* whenever the components of d2 are not a leading run of those of d1, as for
\* /w/data2 in /w/data (one name a character prefix of the other).
C2_IsSubPath ==
    op = "isSubPath" =>
        /\ args.subpath = args.path => ret = True
        /\ ~LeadingRun(Components(args.path), Components(args.subpath)) => ret = False
        /\ (args.subpath = P(<<W, DATA2>>) /\ args.path = P(<<W, DATA>>)) => ret = False

C2_Witness ==
    /\ op = "isSubPath"
    /\ args.subpath = P(<<W, DATA2>>)
    /\ args.path = P(<<W, DATA>>)
    /\ ret = False

\* C3: a getHomePath call made while MH_HOME_LOCATION names an existing
\* directory returns the formatted form of that directory and leaves it in
\* the cache, whatever the cache held; so does the call made by the import.
C3_EnvOverrides ==
    /\ (op = "getHomePath" /\ isdir(args.env)) =>
            (ret = formatPath(args.env) /\ home_path = formatPath(args.env))
    /\ (op = "import" /\ isdir(args.env)) => home_path = formatPath(args.env)

\* the call overwrote a cache that held another directory
C3_Witness ==
    /\ op = "getHomePath"
    /\ isdir(args.env)
    /\ args.cache # None
    /\ args.cache # ret
    /\ home_path = ret

\* C4 as stated: once the cache holds a value, every later getHomePath call
\* returns that value and leaves the cache unchanged.
C4_Original ==
    (op = "getHomePath" /\ args.cache # None) =>
        (ret = args.cache /\ home_path = args.cache)

\* C4 as amended: once the cache holds a value, every getHomePath call made
\* while MH_HOME_LOCATION names no existing directory returns that value and
\* leaves the cache unchanged, and so do the calls that getPath, getDataPath
\* and the import make.
C4_Amended ==
    /\ (op = "getHomePath" /\ args.cache # None /\ ~isdir(args.env)) =>
            (ret = args.cache /\ home_path = args.cache)
    /\ (op \in { "getPath", "getDataPath", "import" } /\ args.cache # None
            /\ ~isdir(args.env)) => home_path = args.cache

\* the call returned a cached value that the platform lookup would not give
C4_Witness ==
    /\ op = "getHomePath"
    /\ args.cache # None
    /\ ~isdir(args.env)
    /\ ret = args.cache
    /\ ret # lookupHome

Last(set) == CHOOSE i \in set : \A j \in set : j <= i
First(set) == CHOOSE i \in set : \A j \in set : i <= j

\* the formatted path of path relative to directory base
RelativeTo(path, base) == formatPath(relpath(realpath(path), realpath(base)))

Holding(relPath, searchPaths) ==
    { i \in DOMAIN searchPaths : isfile(join(searchPaths[i], relPath)) }

\* C6: findFile returns the formatted join of relPath with the first search
\* path under which it is an existing file; with no such entry, None if
\* strict and relPath unchanged otherwise.
C6_FirstMatch ==
    op = "findFile" =>
        LET paths == asList(args.searchPaths)
            m == Holding(args.relPath, paths)
        IN  IF m = {} THEN ret = (IF args.strict THEN None ELSE args.relPath)
            ELSE ret = formatPath(join(paths[First(m)], args.relPath))

\* two search paths hold the file and the second would have given another result
C6_Witness ==
    /\ op = "findFile"
    /\ Cardinality(Holding(args.relPath, asList(args.searchPaths))) = 2
    /\ ret = formatPath(join(asList(args.searchPaths)[1], args.relPath))
    /\ ret # formatPath(join(asList(args.searchPaths)[2], args.relPath))

\* the files with a listed extension (in any case) under the paths searched
Discovered(paths, extensions, recursive) ==
    Range(matching(scan(paths, recursive, CHOOSE o \in ListOrders : TRUE), extensions))

\* of the files that share base path b, the one whose extension is listed first
Kept(files, b, extensions) ==
    CHOOSE f \in files :
        /\ splitext(f)[1] = b
        /\ \A g \in files :
            splitext(g)[1] = b =>
                index(extensions, lower(extOf(f))) <= index(extensions, lower(extOf(g)))

\* C7: search with mutexExtensions does not fail, and yields for every group
\* of discovered files sharing a base path exactly one path, that of the file
\* whose extension comes first in the extensions list.
C7_Claim ==
    (op = "search" /\ args.mutexExtensions) =>
        LET exts == normExtensions(asList(args.extensions))
            files == Discovered(asList(args.paths), exts, args.recursive)
            bases == { splitext(f)[1] : f \in files }
        IN  /\ ~raised
            /\ Range(yielded) = { Kept(files, b, exts) : b \in bases }
            /\ Len(yielded) = Cardinality(bases)

\* findFile was handed what getRelativePath(f, [b]) returned, for an existing
\* file f under the directory b
RoundTrip ==
    /\ op = "findFile"
    /\ args.of # None
    /\ Len(asList(args.searchPaths)) = 1
    /\ isfile(args.of)
    /\ isdir(asList(args.searchPaths)[1])
    /\ isSubPath(args.of, asList(args.searchPaths)[1])

Formatted(v) == formatPath(v) = v

\* C9: every path a public function returns is in formatted form.
C9_Claim ==
    /\ (/\ op \in { "getHomePath", "getPath", "getDataPath", "getSysPath", "getSysDataPath",
                    "getRelativePath", "findFile", "thoroughFindFile", "getJailedPath" }
        /\ ret # None) => Formatted(ret)
    /\ op = "search" => \A i \in DOMAIN yielded : Formatted(yielded[i])

\* C10: thoroughFindFile('data/' + r, searchPaths, True) returns the
\* canonical path of an existing file whenever r is a file under one of the
\* default roots, and returns a path that is no existing file only when that
\* path is the formatted original filename.
C10_Claim ==
    (op = "thoroughFindFile" /\ args.searchDefaultPaths
        /\ startswith(args.filename, DataPrefix)) =>
        LET r == SubSeq(args.filename, Len(DataPrefix) + 1, Len(args.filename))
            roots == { getDataPath(home_path, <<>>).ret, getSysDataPath(<<>>),
                       getPath(home_path, <<>>).ret, getSysPath(<<>>) }
        IN  /\ (\E root \in roots : isfile(join(root, r))) =>
                    (isfile(ret) /\ ret = canonicalPath(ret))
            /\ ~isfile(ret) => ret = formatPath(args.filename)

====
